---- MODULE Spec2Model ----
(***************************************************************************)
(* oula-shares-push: the watermark variant of the share-count pusher       *)
(* (src/main.go, third program of the file: main, loadLastPushedEpochs,    *)
(* pushUpdatedShareCounts, getShareCounts).                                *)
(*                                                                         *)
(* The table shares_epoch_counts is a set of rows [chain, epoch,           *)
(* share_count] with at most one row per (chain, epoch).  The environment  *)
(* appends rows above a chain's current maximum epoch (the source is       *)
(* append-only and epochs grow), so the rows a tick reads with its second  *)
(* query (BETWEEN start AND currentMax) are the rows that existed when its *)
(* first query ran: a tick is one atomic step on one table state.          *)
(* share_count is a non-negative int64; float64(shareCount) is exact for   *)
(* the values used here and is written as the value itself.  chain and     *)
(* epoch are never NULL, so rows.Scan succeeds and maxEpoch.Valid holds;   *)
(* a failed db.Query and a failed rows.Err() of the max-epoch query are    *)
(* one outcome (queryFail): both return before any chain is processed.     *)
(* Ticks never overlap (one goroutine, one select loop).                   *)
(*                                                                         *)
(* A push is recorded as the call made for a chain (job                    *)
(* shares_monitor_<chain>_...) together with the samples the collector     *)
(* held when it was gathered.  Definitions introduced as "faulty variant"  *)
(* are the code with one plausible slip; they are used to show that a      *)
(* property depends on the code it is about.                               *)
(***************************************************************************)
EXTENDS Integers, Sequences, FiniteSets, TLC

\* ---------------------------------------------------------------- bounds
Chains == {"alpha", "beta"}
MaxEpoch == 2
MaxCount == 1
MaxRows == 2

\* ------------------------------------------------------------- variables
VARIABLES
    pc,                   \* "startup" | "running" | "exited"   (main)
    shares_epoch_counts,  \* the MySQL table
    lastPushed,           \* map[string]int64 of main, a partial function
    sharesEpochCount,     \* GaugeVec: chain label -> value, 0 = no child
    sharesLatestNonZero,  \* GaugeVec: chain label -> value, 0 = no child
    last,                 \* what the last step of main did (its log lines)
    seeded,               \* the map main logged at startup ("Initial last pushed epochs")
    emitted               \* per chain, the highest epoch main logged as "Successfully pushed shares_epoch_count"

vars == <<pc, shares_epoch_counts, lastPushed, sharesEpochCount,
          sharesLatestNonZero, last, seeded, emitted>>

\* --------------------------------------------------------------- helpers
SetMax(S) == CHOOSE x \in S : \A y \in S : y <= x

ChainsOf(tbl) == {r.chain : r \in tbl}

EpochsOf(tbl, chain) == {r.epoch : r \in {q \in tbl : q.chain = chain}}

CountAt(tbl, chain, epoch) ==
    (CHOOSE r \in tbl : r.chain = chain /\ r.epoch = epoch).share_count

\* SELECT chain, MAX(epoch) FROM shares_epoch_counts GROUP BY chain
MaxEpochQuery(tbl) ==
    [c \in ChainsOf(tbl) |-> SetMax(EpochsOf(tbl, c))]

\* m[k] = v on a Go map
MapPut(m, k, v) ==
    [x \in (DOMAIN m) \cup {k} |-> IF x = k THEN v ELSE m[x]]

\* every ordering of a finite set, as sequences (row order of a GROUP BY)
Orders(S) ==
    LET n == Cardinality(S)
    IN {s \in [1..n -> S] : \A i, j \in 1..n : i # j => s[i] # s[j]}

\* ------------------------------------------------- loadLastPushedEpochs
loadLastPushedEpochs(tbl) == MaxEpochQuery(tbl)

\* faulty variant: the range read without its two ends
getShareCountsExclusive(tbl, chain, start, end) ==
    [e \in {x \in EpochsOf(tbl, chain) : start < x /\ x < end}
        |-> CountAt(tbl, chain, e)]

\* ------------------------------------------------------- getShareCounts
getShareCounts(tbl, chain, start, end) ==
    [e \in {x \in EpochsOf(tbl, chain) : start <= x /\ x <= end}
        |-> CountAt(tbl, chain, e)]

\* ---------------------------------------------- pushUpdatedShareCounts
\* One push.New(...).Collector(vec).Push() call, as the log reports it.
\* samples is what the collector holds when it is gathered.
PushEntry(series, chain, epoch, value, ok, samples) ==
    [series |-> series, chain |-> chain, epoch |-> epoch, value |-> value,
     ok |-> ok, samples |-> samples]

\* faulty variant: the range starts at the first epoch, whatever the watermark
RangeStartZero(lastEpoch) == 1

\* the range to push: start := lastEpoch + 1
RangeStart(lastEpoch) == lastEpoch + 1

\* faulty variant: the watermark is not updated after a successful push
AdvanceNever(lp, chain, epoch) == lp

\* lastPushed[ce.Chain] = epoch after a successful push
Advance(lp, chain, epoch) == MapPut(lp, chain, epoch)

\* faulty variant: the loop pushes every epoch of the range, zero or not
RECURSIVE EpochLoopNoSkip(_, _, _, _, _, _)
EpochLoopNoSkip(chain, epoch, end, shareCounts, st, pushFail) ==
    IF epoch > end THEN st
    ELSE
      LET shareCount ==
              IF epoch \in DOMAIN shareCounts THEN shareCounts[epoch] ELSE 0
          vec == [st.sharesEpochCount EXCEPT ![chain] = shareCount]
          ok == <<"shares_epoch_count", chain, epoch>> \notin pushFail
          st1 == [st EXCEPT
                    !.sharesEpochCount = vec,
                    !.log = Append(@, PushEntry("shares_epoch_count",
                                chain, epoch, vec[chain], ok, vec))]
      IN
      IF ~ok
      THEN EpochLoopNoSkip(chain, epoch + 1, end, shareCounts, st1, pushFail)
      ELSE EpochLoopNoSkip(chain, epoch + 1, end, shareCounts,
               [st1 EXCEPT !.lastPushed = MapPut(@, chain, epoch)],
               pushFail)

\* faulty variant: the range walked from end down to start
RECURSIVE EpochLoopDescending(_, _, _, _, _, _)
EpochLoopDescending(chain, epoch, end, shareCounts, st, pushFail) ==
    IF epoch > end THEN st
    ELSE
      LET shareCount ==
              IF end \in DOMAIN shareCounts THEN shareCounts[end] ELSE 0
      IN
      IF shareCount = 0
      THEN EpochLoopDescending(chain, epoch, end - 1, shareCounts, st, pushFail)
      ELSE
        LET vec == [st.sharesEpochCount EXCEPT ![chain] = shareCount]
            ok == <<"shares_epoch_count", chain, end>> \notin pushFail
            st1 == [st EXCEPT
                      !.sharesEpochCount = vec,
                      !.log = Append(@, PushEntry("shares_epoch_count",
                                  chain, end, vec[chain], ok, vec))]
        IN
        IF ~ok
        THEN EpochLoopDescending(chain, epoch, end - 1, shareCounts, st1,
                                 pushFail)
        ELSE EpochLoopDescending(chain, epoch, end - 1, shareCounts,
                 [st1 EXCEPT !.lastPushed = MapPut(@, chain, end)],
                 pushFail)

\* faulty variant: a refused push resets the watermark of the chain
RECURSIVE EpochLoopForget(_, _, _, _, _, _)
EpochLoopForget(chain, epoch, end, shareCounts, st, pushFail) ==
    IF epoch > end THEN st
    ELSE
      LET shareCount ==
              IF epoch \in DOMAIN shareCounts THEN shareCounts[epoch] ELSE 0
      IN
      IF shareCount = 0
      THEN EpochLoopForget(chain, epoch + 1, end, shareCounts, st, pushFail)
      ELSE
        LET vec == [st.sharesEpochCount EXCEPT ![chain] = shareCount]
            ok == <<"shares_epoch_count", chain, epoch>> \notin pushFail
            st1 == [st EXCEPT
                      !.sharesEpochCount = vec,
                      !.log = Append(@, PushEntry("shares_epoch_count",
                                  chain, epoch, vec[chain], ok, vec))]
        IN
        IF ~ok
        THEN EpochLoopForget(chain, epoch + 1, end, shareCounts,
                 [st1 EXCEPT !.lastPushed = MapPut(@, chain, 0)],
                 pushFail)
        ELSE EpochLoopForget(chain, epoch + 1, end, shareCounts,
                 [st1 EXCEPT !.lastPushed = MapPut(@, chain, epoch)],
                 pushFail)

\* for epoch := start; epoch <= end; epoch++ { ... }
RECURSIVE EpochLoop(_, _, _, _, _, _)
EpochLoop(chain, epoch, end, shareCounts, st, pushFail) ==
    IF epoch > end THEN st
    ELSE
      LET shareCount ==
              IF epoch \in DOMAIN shareCounts THEN shareCounts[epoch] ELSE 0
      IN
      IF shareCount = 0
      THEN EpochLoop(chain, epoch + 1, end, shareCounts, st, pushFail)
      ELSE
        LET vec == [st.sharesEpochCount EXCEPT ![chain] = shareCount]
            ok == <<"shares_epoch_count", chain, epoch>> \notin pushFail
            st1 == [st EXCEPT
                      !.sharesEpochCount = vec,
                      !.log = Append(@, PushEntry("shares_epoch_count",
                                  chain, epoch, vec[chain], ok, vec))]
        IN
        IF ~ok
        THEN EpochLoop(chain, epoch + 1, end, shareCounts, st1, pushFail)
        ELSE EpochLoop(chain, epoch + 1, end, shareCounts,
                 [st1 EXCEPT !.lastPushed = Advance(@, chain, epoch)],
                 pushFail)

\* faulty variant: the count of the last epoch that has a non-zero count
LatestPositiveOf(shareCounts, end) ==
    LET pos == {e \in DOMAIN shareCounts : shareCounts[e] # 0}
    IN IF pos = {} THEN 0 ELSE shareCounts[SetMax(pos)]

\* latestShareCount, exists := shareCounts[end]; if !exists { ... = 0 }
LatestOf(shareCounts, end) ==
    IF end \in DOMAIN shareCounts THEN shareCounts[end] ELSE 0

\* lastEpoch, exists := lastPushed[ce.Chain]; if !exists { lastEpoch = 0 }
LastEpochOf(lp, chain) == IF chain \in DOMAIN lp THEN lp[chain] ELSE 0

\* the body of "for _, ce := range chains" for one chain
ProcessChain(tbl, chain, currentMax, st, rangeFail, pushFail) ==
    LET lastEpoch == LastEpochOf(st.lastPushed, chain)
        start == RangeStart(lastEpoch)
        end == currentMax
        shareCounts == getShareCounts(tbl, chain, start, end)
        latestShareCount == LatestOf(shareCounts, end)
    IN
    IF currentMax <= lastEpoch THEN st
    ELSE IF chain \in rangeFail
    THEN [st EXCEPT !.rangeFailed = @ \cup {chain}]
    ELSE IF latestShareCount # 0
    THEN
      LET vec == [st.sharesLatestNonZero EXCEPT ![chain] = latestShareCount]
          ok == <<"shares_latest_nonzero", chain, end>> \notin pushFail
          st1 == [st EXCEPT
                    !.sharesLatestNonZero = vec,
                    !.log = Append(@, PushEntry("shares_latest_nonzero",
                                chain, end, vec[chain], ok, vec))]
      IN
      IF ~ok THEN st1
      ELSE EpochLoop(chain, start, end, shareCounts, st1, pushFail)
    ELSE EpochLoop(chain, start, end, shareCounts, st, pushFail)

\* faulty variant: a failed range query ends the tick (return instead of continue)
RECURSIVE ChainLoopAbort(_, _, _, _, _, _, _)
ChainLoopAbort(tbl, chains, order, i, st, rangeFail, pushFail) ==
    IF i > Len(order) \/ st.rangeFailed # {} THEN st
    ELSE ChainLoopAbort(tbl, chains, order, i + 1,
             ProcessChain(tbl, order[i], chains[order[i]], st,
                          rangeFail, pushFail),
             rangeFail, pushFail)

\* for _, ce := range chains, in the order the rows came back
RECURSIVE ChainLoop(_, _, _, _, _, _, _)
ChainLoop(tbl, chains, order, i, st, rangeFail, pushFail) ==
    IF i > Len(order) THEN st
    ELSE ChainLoop(tbl, chains, order, i + 1,
             ProcessChain(tbl, order[i], chains[order[i]], st,
                          rangeFail, pushFail),
             rangeFail, pushFail)

pushUpdatedShareCounts(tbl, lp, epochVec, latestVec, order, rangeFail, pushFail) ==
    ChainLoop(tbl, MaxEpochQuery(tbl), order, 1,
        [lastPushed |-> lp, sharesEpochCount |-> epochVec,
         sharesLatestNonZero |-> latestVec, log |-> <<>>, rangeFailed |-> {}],
        rangeFail, pushFail)

\* The outcomes a tick can meet: the order the GROUP BY rows come back in,
\* the chains whose range query fails, the pushes the gateway refuses.
\* Only outcomes the tick can observe are listed: a push is refused only if
\* it is made (the chain's range was read; for an epoch push, the chain's
\* shares_latest_nonzero push was not refused), and two orders differ only
\* when two chains have something to push.
Pending(tbl, lp) ==
    {c \in ChainsOf(tbl) : SetMax(EpochsOf(tbl, c)) > LastEpochOf(lp, c)}

LatestKeys(tbl, lp) ==
    {<<"shares_latest_nonzero", c, SetMax(EpochsOf(tbl, c))>> :
        c \in {x \in Pending(tbl, lp) :
                 CountAt(tbl, x, SetMax(EpochsOf(tbl, x))) # 0}}

EpochKeys(tbl, lp) ==
    {<<"shares_epoch_count", r.chain, r.epoch>> :
        r \in {q \in tbl : /\ q.chain \in Pending(tbl, lp)
                           /\ q.epoch > LastEpochOf(lp, q.chain)
                           /\ q.share_count # 0}}

Outcomes(tbl, lp) ==
    LET all == Orders(ChainsOf(tbl))
        canon == CHOOSE o \in all : TRUE
        latest == LatestKeys(tbl, lp)
        epochs == EpochKeys(tbl, lp)
        made(rf) == {k \in latest : k[2] \notin rf}
        loop(rf, lf) ==
            {k \in epochs : k[2] \notin rf \cup {l[2] : l \in lf}}
        orders(rf) ==
            IF Cardinality({k[2] : k \in made(rf) \cup loop(rf, {})}) > 1
            THEN all ELSE {canon}
    IN
    UNION {UNION {[order : orders(rf), rangeFail : {rf},
                   pushFail : {lf \cup ef : ef \in SUBSET loop(rf, lf)}] :
                      lf \in SUBSET made(rf)} :
              rf \in SUBSET Pending(tbl, lp)}

\* ------------------------------------------------------------------ main
\* the record of the log lines "Successfully pushed shares_epoch_count":
\* per chain, the highest epoch of the accepted shares_epoch_count pushes
\* of a tick's log, on top of what earlier ticks left
EmittedAfter(em, log) ==
    LET ok(c) == {log[i].epoch :
                     i \in {j \in DOMAIN log :
                              /\ log[j].series = "shares_epoch_count"
                              /\ log[j].chain = c
                              /\ log[j].ok}}
        told == {c \in Chains : ok(c) # {}}
    IN [c \in (DOMAIN em) \cup told |->
           IF c \notin told THEN em[c]
           ELSE IF c \notin DOMAIN em THEN SetMax(ok(c))
           ELSE SetMax(ok(c) \cup {em[c]})]

NoVec == [c \in Chains |-> 0]

\* What the last step logged.  For a step of main (startup, tick): the table
\* it read, the watermarks it started from, the failures it met and the
\* pushes it made; unchanged and clean are history flags about the step
\* before it: unchanged, the table is the one the previous startup or tick
\* read; clean, that previous step met no failure.  A step of the
\* environment (grow) leaves an empty report: main logs nothing for it.
Report(kind, tbl, before, queryFailed, rangeFailed, log, unchanged, clean) ==
    [kind |-> kind, table |-> tbl, before |-> before,
     queryFailed |-> queryFailed, rangeFailed |-> rangeFailed, log |-> log,
     unchanged |-> unchanged, clean |-> clean]

NoFailure(r) ==
    /\ ~r.queryFailed
    /\ r.rangeFailed = {}
    /\ \A i \in DOMAIN r.log : r.log[i].ok

Unchanged ==
    /\ last.kind \in {"startup", "tick"}
    /\ last.table = shares_epoch_counts

\* the tables the process can find at startup: one row per (chain, epoch),
\* with room left for the source to grow
Tables ==
    {t \in SUBSET [chain : Chains, epoch : 1..MaxEpoch,
                   share_count : 0..MaxCount] :
        /\ Cardinality(t) < MaxRows
        /\ \A r, q \in t : (r.chain = q.chain /\ r.epoch = q.epoch) => r = q}

Init ==
    /\ pc = "startup"
    /\ shares_epoch_counts \in Tables
    /\ lastPushed = << >>
    /\ sharesEpochCount = NoVec
    /\ sharesLatestNonZero = NoVec
    /\ last = Report("init", {}, << >>, FALSE, {}, <<>>, FALSE, FALSE)
    /\ seeded = << >>
    /\ emitted = << >>

\* main before the loop: lastPushed, err := loadLastPushedEpochs(mysqlDB)
Startup ==
    /\ pc = "startup"
    /\ \E fail \in BOOLEAN :
         IF fail
         THEN /\ pc' = "exited"
              /\ lastPushed' = lastPushed
              /\ last' = Report("fatal", shares_epoch_counts, lastPushed,
                                TRUE, {}, <<>>, FALSE, FALSE)
         ELSE /\ pc' = "running"
              /\ lastPushed' = loadLastPushedEpochs(shares_epoch_counts)
              /\ last' = Report("startup", shares_epoch_counts, lastPushed,
                                FALSE, {}, <<>>, FALSE, FALSE)
    /\ UNCHANGED <<shares_epoch_counts, sharesEpochCount, sharesLatestNonZero>>
    /\ seeded' = lastPushed'
    /\ UNCHANGED emitted

\* faulty variant: main ends the process when a tick returns an error
\* (log.Fatalf in the place of log.Printf)
TickFatal ==
    /\ pc = "running"
    /\ \E queryFail \in BOOLEAN :
         IF queryFail
         THEN /\ last' = Report("tick", shares_epoch_counts, lastPushed,
                                TRUE, {}, <<>>, Unchanged,
                                NoFailure(last))
              /\ pc' = "exited"
              /\ UNCHANGED <<lastPushed, sharesEpochCount, sharesLatestNonZero>>
         ELSE \E o \in Outcomes(shares_epoch_counts, lastPushed) :
              \E st \in {pushUpdatedShareCounts(shares_epoch_counts,
                            lastPushed, sharesEpochCount, sharesLatestNonZero,
                            o.order, o.rangeFail, o.pushFail)} :
                   /\ lastPushed' = st.lastPushed
                   /\ sharesEpochCount' = st.sharesEpochCount
                   /\ sharesLatestNonZero' = st.sharesLatestNonZero
                   /\ last' = Report("tick", shares_epoch_counts, lastPushed,
                                     FALSE, st.rangeFailed, st.log,
                                     Unchanged, NoFailure(last))
                   /\ pc' = pc
    /\ UNCHANGED shares_epoch_counts
    /\ UNCHANGED seeded
    /\ emitted' = EmittedAfter(emitted, last'.log)

\* case <-ticker.C: err := pushUpdatedShareCounts(mysqlDB, *pushGateway, lastPushed)
Tick ==
    /\ pc = "running"
    /\ \E queryFail \in BOOLEAN :
         IF queryFail
         THEN /\ last' = Report("tick", shares_epoch_counts, lastPushed,
                                TRUE, {}, <<>>, Unchanged,
                                NoFailure(last))
              /\ UNCHANGED <<lastPushed, sharesEpochCount, sharesLatestNonZero>>
         ELSE \E o \in Outcomes(shares_epoch_counts, lastPushed) :
              \E st \in {pushUpdatedShareCounts(shares_epoch_counts,
                            lastPushed, sharesEpochCount, sharesLatestNonZero,
                            o.order, o.rangeFail, o.pushFail)} :
                   /\ lastPushed' = st.lastPushed
                   /\ sharesEpochCount' = st.sharesEpochCount
                   /\ sharesLatestNonZero' = st.sharesLatestNonZero
                   /\ last' = Report("tick", shares_epoch_counts, lastPushed,
                                     FALSE, st.rangeFailed, st.log,
                                     Unchanged, NoFailure(last))
    /\ UNCHANGED <<pc, shares_epoch_counts>>
    /\ UNCHANGED seeded
    /\ emitted' = EmittedAfter(emitted, last'.log)

\* the environment: a new row above the chain's highest epoch
Grow ==
    /\ pc = "running"
    /\ Cardinality(shares_epoch_counts) < MaxRows
    /\ \E c \in Chains, e \in 1..MaxEpoch, n \in 0..MaxCount :
         /\ \A x \in EpochsOf(shares_epoch_counts, c) : x < e
         /\ shares_epoch_counts' = shares_epoch_counts \cup
                {[chain |-> c, epoch |-> e, share_count |-> n]}
    /\ last' = Report("grow", {}, << >>, FALSE, {}, <<>>, FALSE, FALSE)
    /\ UNCHANGED <<pc, lastPushed, sharesEpochCount, sharesLatestNonZero>>
    /\ UNCHANGED seeded
    /\ UNCHANGED emitted

Next == Startup \/ Tick \/ Grow

Spec == Init /\ [][Next]_vars

\* ------------------------------------------------- the two scenario chains
\* alpha: rows 5 (10 shares), 6 (none), 7 (3 shares), unknown at startup.
\* beta: rows 4 (2 shares), 9 (8 shares), 12 (none); any prefix of them, by
\* epoch, may be there at startup.
AlphaRows ==
    {[chain |-> "alpha", epoch |-> 5, share_count |-> 10],
     [chain |-> "alpha", epoch |-> 6, share_count |-> 0],
     [chain |-> "alpha", epoch |-> 7, share_count |-> 3]}

BetaRows ==
    {[chain |-> "beta", epoch |-> 4, share_count |-> 2],
     [chain |-> "beta", epoch |-> 9, share_count |-> 8],
     [chain |-> "beta", epoch |-> 12, share_count |-> 0]}

RowsUpTo(rows, e) == {r \in rows : r.epoch <= e}

InitScenario ==
    /\ pc = "startup"
    /\ shares_epoch_counts \in
          {RowsUpTo(BetaRows, e) : e \in {0} \cup {r.epoch : r \in BetaRows}}
    /\ lastPushed = << >>
    /\ sharesEpochCount = NoVec
    /\ sharesLatestNonZero = NoVec
    /\ last = Report("init", {}, << >>, FALSE, {}, <<>>, FALSE, FALSE)
    /\ seeded = << >>
    /\ emitted = << >>

\* the environment: the next rows of one scenario chain arrive
Arrive ==
    /\ pc = "running"
    /\ \E rows \in {AlphaRows, BetaRows} :
          \E e \in {r.epoch : r \in rows} :
             /\ ~(RowsUpTo(rows, e) \subseteq shares_epoch_counts)
             /\ shares_epoch_counts' =
                   shares_epoch_counts \cup RowsUpTo(rows, e)
    /\ last' = Report("grow", {}, << >>, FALSE, {}, <<>>, FALSE, FALSE)
    /\ UNCHANGED <<pc, lastPushed, sharesEpochCount, sharesLatestNonZero>>
    /\ UNCHANGED seeded
    /\ UNCHANGED emitted

NextScenario == Startup \/ Tick \/ Arrive

SpecScenario == InitScenario /\ [][NextScenario]_vars

\* ================================================================ claims
\* Reading the report of the last tick.
Ticked == last.kind = "tick"

IsEpochPush(e) == e.series = "shares_epoch_count"

IsLatestPush(e) == e.series = "shares_latest_nonzero"

\* the pushes of the last tick made for one series and one chain, in order
PushesOf(series, chain) ==
    LET Test(e) == e.series = series /\ e.chain = chain
    IN SelectSeq(last.log, Test)

\* the values lastPushed[chain] took during the last tick, in order: the
\* value it started from, then the epoch of each successful epoch push
\* (line 451 follows each of them)
WatermarkValues(chain) ==
    LET Test(e) == IsEpochPush(e) /\ e.chain = chain /\ e.ok
        done == SelectSeq(last.log, Test)
    IN <<LastEpochOf(last.before, chain)>> \o
       [i \in 1..Len(done) |-> done[i].epoch]

\* the rows of the table the last tick read that lay in the chain's
\* pending range and hold a non-zero count
PendingRows(chain) ==
    {r \in last.table : /\ r.chain = chain
                        /\ r.epoch > LastEpochOf(last.before, chain)
                        /\ r.share_count # 0}

\* the chains whose range the last tick read
Processed ==
    IF last.queryFailed THEN {}
    ELSE Pending(last.table, last.before) \ last.rangeFailed

\* C1: if the push of shares_epoch_count for (chain, k) failed during a
\* tick, then after the tick lastPushed[chain] < k, whatever the other
\* pushes of the tick did, so that k is pending again on the next tick.
C1_FailedEpochStaysPending ==
    Ticked =>
        \A i \in DOMAIN last.log :
            (IsEpochPush(last.log[i]) /\ ~last.log[i].ok) =>
                LastEpochOf(lastPushed, last.log[i].chain) < last.log[i].epoch

\* C2: lastPushed[chain] never decreases: not from one state to the next
\* (a chain once in the map stays in it), and not inside a tick, where the
\* successive values assigned to it (the epoch of each successful epoch
\* push, line 451) are non-decreasing, from the value the tick started
\* with up to the value it leaves.
MonotoneWithinTick ==
    Ticked =>
        /\ \A i, j \in DOMAIN last.log :
              (/\ i < j
               /\ IsEpochPush(last.log[i]) /\ last.log[i].ok
               /\ IsEpochPush(last.log[j]) /\ last.log[j].ok
               /\ last.log[i].chain = last.log[j].chain)
              => last.log[i].epoch <= last.log[j].epoch
        /\ \A i \in DOMAIN last.log :
              (IsEpochPush(last.log[i]) /\ last.log[i].ok) =>
                 /\ LastEpochOf(last.before, last.log[i].chain)
                       <= last.log[i].epoch
                 /\ last.log[i].epoch
                       <= LastEpochOf(lastPushed, last.log[i].chain)

C2_WatermarkNeverDecreases ==
    [][/\ \A c \in Chains :
            /\ LastEpochOf(lastPushed, c) <= LastEpochOf(lastPushed', c)
            /\ c \in DOMAIN lastPushed => c \in DOMAIN lastPushed'
       /\ MonotoneWithinTick']_vars

\* a tick moved a watermark and met a failed push
C2_Witness ==
    /\ Ticked
    /\ \E c \in Chains : Len(WatermarkValues(c)) > 1
    /\ \E i \in DOMAIN last.log : ~last.log[i].ok

\* C3 (as claimed): a tick that finds the table its predecessor read makes
\* no push and leaves every watermark as it was.
C3_UnchangedSourceNoEmission ==
    (Ticked /\ last.unchanged) =>
        (last.log = <<>> /\ lastPushed = last.before)

\* C3 (amended): a tick that finds the table its predecessor (the startup
\* seeding or a tick) read, when that predecessor met no failure (no failed
\* store read, no refused push), makes no push of either series and leaves
\* every watermark as it was.
C3_SettledSourceNoEmission ==
    (Ticked /\ last.unchanged /\ last.clean) =>
        (last.log = <<>> /\ lastPushed = last.before)

\* a tick that pushed nothing although an earlier tick had pushed for a
\* chain of this same table
C3_Witness ==
    /\ Ticked /\ last.unchanged /\ last.clean /\ ~last.queryFailed
    /\ \E c \in Chains : sharesEpochCount[c] # 0 /\ c \in DOMAIN lastPushed

\* C4: a refused push does not abort the rest of the tick: in a tick that
\* met a refused push, every non-zero epoch in the pending range of every
\* chain whose range was read has its shares_epoch_count push attempted.
C4_FailureDoesNotAbort ==
    (Ticked /\ \E i \in DOMAIN last.log : ~last.log[i].ok) =>
        \A c \in Processed : \A r \in PendingRows(c) :
            \E i \in DOMAIN last.log :
                /\ IsEpochPush(last.log[i])
                /\ last.log[i].chain = c
                /\ last.log[i].epoch = r.epoch

\* C5: shares_epoch_count is never pushed with value zero: every epoch push
\* carries the non-zero count of a row of the table, and a watermark moved
\* by the tick rests on an epoch whose row has a non-zero count.
C5_NoZeroEmission ==
    Ticked =>
        /\ \A i \in DOMAIN last.log :
              IsEpochPush(last.log[i]) =>
                 /\ last.log[i].value # 0
                 /\ \E r \in last.table :
                       /\ r.chain = last.log[i].chain
                       /\ r.epoch = last.log[i].epoch
                       /\ r.share_count = last.log[i].value
        /\ \A c \in Chains :
              LastEpochOf(lastPushed, c) # LastEpochOf(last.before, c) =>
                 \E r \in last.table :
                    /\ r.chain = c
                    /\ r.epoch = LastEpochOf(lastPushed, c)
                    /\ r.share_count # 0

\* a tick walked over a zero-count row of a pending range and pushed a
\* later epoch of the same chain
C5_Witness ==
    /\ Ticked
    /\ \E r \in last.table :
          /\ r.epoch > LastEpochOf(last.before, r.chain)
          /\ r.share_count = 0
          /\ \E i \in DOMAIN last.log :
                /\ IsEpochPush(last.log[i])
                /\ last.log[i].chain = r.chain
                /\ last.log[i].epoch > r.epoch

\* C6: in a tick that processes a chain (its range was read), if the count
\* v at the chain's max epoch M is non-zero, shares_latest_nonzero is pushed
\* exactly once for the chain, for epoch M with value v; if v = 0, it is not
\* pushed for the chain.
C6_LatestNonZero ==
    Ticked =>
        \A c \in Processed :
            LET M == SetMax(EpochsOf(last.table, c))
                v == CountAt(last.table, c, M)
                p == PushesOf("shares_latest_nonzero", c)
            IN IF v # 0
               THEN Len(p) = 1 /\ p[1].value = v /\ p[1].epoch = M
               ELSE Len(p) = 0

\* one tick processed a chain whose max epoch holds a count and a chain
\* whose max epoch holds zero
C6_Witness ==
    /\ Ticked
    /\ \E c, d \in Processed :
          /\ CountAt(last.table, c, SetMax(EpochsOf(last.table, c))) # 0
          /\ Len(PushesOf("shares_latest_nonzero", c)) = 1
          /\ CountAt(last.table, d, SetMax(EpochsOf(last.table, d))) = 0

\* C7: between ticks, lastPushed[chain] is at most the highest epoch with a
\* positive count for the chain (0 when it has none), from the seeding on.
MaxPositiveEpoch(tbl, chain) ==
    LET pos == {r.epoch : r \in {q \in tbl : q.chain = chain
                                              /\ q.share_count > 0}}
    IN IF pos = {} THEN 0 ELSE SetMax(pos)

C7_WatermarkAtMostMaxPositive ==
    pc = "running" =>
        \A c \in DOMAIN lastPushed :
            lastPushed[c] <= MaxPositiveEpoch(shares_epoch_counts, c)

\* C8 (as claimed): a tick in which a store read failed, the first query
\* or the range query of any chain, pushes nothing and moves no watermark.
C8_StoreFailureAbandonsTick ==
    (Ticked /\ (last.queryFailed \/ last.rangeFailed # {})) =>
        (last.log = <<>> /\ lastPushed = last.before)

\* C8 (amended): when the max-epoch query fails the tick is abandoned: no
\* push, no watermark moves.  When the range query of a chain fails, that
\* chain alone is skipped: no push is made for it and its watermark stays,
\* while every other chain with pending non-zero epochs is still pushed.
C8_StoreFailureSkipsItsUnit ==
    Ticked =>
        /\ last.queryFailed =>
              (last.log = <<>> /\ lastPushed = last.before)
        /\ \A c \in last.rangeFailed :
              /\ \A i \in DOMAIN last.log : last.log[i].chain # c
              /\ LastEpochOf(lastPushed, c) = LastEpochOf(last.before, c)
        /\ \A c \in Processed :
              PendingRows(c) # {} =>
                 \E i \in DOMAIN last.log : last.log[i].chain = c

\* the range query of one chain failed in a tick that pushed for another
\* chain and moved its watermark
C8_Witness ==
    /\ Ticked
    /\ last.rangeFailed # {}
    /\ last.log # <<>>
    /\ lastPushed # last.before

\* what a push says, without the collector's other samples
Said(p) == [i \in DOMAIN p |-> <<p[i].epoch, p[i].value>>]

RowsOfChain(tbl, chain) == {r \in tbl : r.chain = chain}

\* C9: scenario alpha.  Watermark 0, rows {5: 10, 6: 0, 7: 3}: a tick that
\* reads the store and whose pushes for alpha all succeed pushes
\* shares_epoch_count for epoch 5 (10) and epoch 7 (3) and for no other
\* epoch, pushes shares_latest_nonzero = 3, and leaves lastPushed = 7.
C9_ScenarioAlpha ==
    (/\ Ticked
     /\ "alpha" \in Processed
     /\ LastEpochOf(last.before, "alpha") = 0
     /\ RowsOfChain(last.table, "alpha") = AlphaRows
     /\ \A i \in DOMAIN last.log :
           last.log[i].chain = "alpha" => last.log[i].ok)
    =>
    /\ Said(PushesOf("shares_epoch_count", "alpha")) = << <<5, 10>>, <<7, 3>> >>
    /\ Said(PushesOf("shares_latest_nonzero", "alpha")) = << <<7, 3>> >>
    /\ LastEpochOf(lastPushed, "alpha") = 7

\* the tick of scenario alpha has run with every push accepted
C9_Witness ==
    /\ Ticked
    /\ "alpha" \in Processed
    /\ LastEpochOf(last.before, "alpha") = 0
    /\ RowsOfChain(last.table, "alpha") = AlphaRows
    /\ Len(PushesOf("shares_epoch_count", "alpha")) = 2
    /\ \A i \in DOMAIN last.log : last.log[i].ok

\* C10: scenario beta.  Max epoch 12 holds 0 and the last positive count is
\* 8 at epoch 9: a tick that reads the store pushes no
\* shares_latest_nonzero for beta, and pushes shares_epoch_count = 8 for
\* epoch 9 exactly when 9 is above beta's watermark at the start of the tick.
C10_ScenarioBeta ==
    (/\ Ticked
     /\ ~last.queryFailed
     /\ "beta" \notin last.rangeFailed
     /\ RowsOfChain(last.table, "beta") = BetaRows)
    =>
    /\ PushesOf("shares_latest_nonzero", "beta") = <<>>
    /\ (\E i \in DOMAIN last.log :
           /\ IsEpochPush(last.log[i])
           /\ last.log[i].chain = "beta"
           /\ last.log[i].epoch = 9
           /\ last.log[i].value = 8)
       <=> LastEpochOf(last.before, "beta") < 9

\* a tick found beta with watermark 4 and pushed epoch 9
C10_Witness ==
    /\ Ticked
    /\ RowsOfChain(last.table, "beta") = BetaRows
    /\ LastEpochOf(last.before, "beta") = 4
    /\ \E i \in DOMAIN last.log :
          /\ IsEpochPush(last.log[i])
          /\ last.log[i].chain = "beta"
          /\ last.log[i].epoch = 9

\* the epochs whose shares_epoch_count push the last tick made for a chain
\* and saw accepted
Accepted(chain) ==
    {last.log[i].epoch :
        i \in {j \in DOMAIN last.log : /\ IsEpochPush(last.log[j])
                                       /\ last.log[j].chain = chain
                                       /\ last.log[j].ok}}

\* C17: after a tick, lastPushed[chain] is the highest epoch whose
\* shares_epoch_count push was accepted in the tick, and so at least every
\* such epoch, or the value it had before the tick when no push of the
\* chain was accepted; a push refused later in the range takes nothing back.
C17_PartialSuccessKept ==
    Ticked =>
        \A c \in Chains :
            LastEpochOf(lastPushed, c) =
                IF Accepted(c) = {} THEN LastEpochOf(last.before, c)
                ELSE SetMax(Accepted(c))

\* a tick in which a push of a chain was accepted and a later push of the
\* same chain refused
C17_Witness ==
    /\ Ticked
    /\ \E i, j \in DOMAIN last.log :
          /\ i < j
          /\ IsEpochPush(last.log[i]) /\ last.log[i].ok
          /\ IsEpochPush(last.log[j]) /\ ~last.log[j].ok
          /\ last.log[i].chain = last.log[j].chain
          /\ lastPushed[last.log[i].chain] = last.log[i].epoch

\* C18: in a tick the shares_epoch_count pushes of a chain are attempted
\* in strictly ascending epoch order, and the epochs whose push was
\* accepted are a prefix of the non-zero epochs of the chain's pending
\* range: no non-zero epoch of the range below an accepted one is
\* unaccepted, and the highest accepted one is lastPushed[chain].
C18_AscendingContiguousPrefix ==
    Ticked =>
        /\ \A i, j \in DOMAIN last.log :
              (/\ i < j
               /\ IsEpochPush(last.log[i]) /\ IsEpochPush(last.log[j])
               /\ last.log[i].chain = last.log[j].chain)
              => last.log[i].epoch < last.log[j].epoch
        /\ \A c \in Chains :
              /\ \A e \in Accepted(c) :
                    \A r \in PendingRows(c) :
                        r.epoch < e => r.epoch \in Accepted(c)
              /\ Accepted(c) # {} => lastPushed[c] = SetMax(Accepted(c))

\* C19: for a chain that was in the table at startup, no tick ever
\* attempts a shares_epoch_count push for an epoch at or below the value
\* loadLastPushedEpochs seeded for it.
C19_ColdStartSkip ==
    Ticked =>
        \A i \in DOMAIN last.log :
            (IsEpochPush(last.log[i]) /\ last.log[i].chain \in DOMAIN seeded)
            => last.log[i].epoch > seeded[last.log[i].chain]

\* a tick pushed a new epoch of a chain whose seed rests on a row with a
\* non-zero count, a row no tick has pushed
C19_Witness ==
    /\ Ticked
    /\ \E i \in DOMAIN last.log :
          /\ IsEpochPush(last.log[i])
          /\ last.log[i].chain \in DOMAIN seeded
          /\ CountAt(shares_epoch_counts, last.log[i].chain,
                     seeded[last.log[i].chain]) # 0

\* C20: a tick that reads the range of a chain absent from lastPushed
\* takes its watermark as 0: every non-zero epoch of the chain from epoch 1
\* to its max epoch has its shares_epoch_count push attempted in that tick.
C20_AbsentChainFromOne ==
    Ticked =>
        \A c \in Processed \ DOMAIN last.before :
            \A r \in last.table :
                (r.chain = c /\ r.epoch >= 1 /\ r.share_count # 0) =>
                    \E i \in DOMAIN last.log :
                        /\ IsEpochPush(last.log[i])
                        /\ last.log[i].chain = c
                        /\ last.log[i].epoch = r.epoch

\* C22: once the shares_epoch_count push of (chain, e) has been accepted,
\* no push of shares_epoch_count is attempted again for that chain at e or
\* below: not by a later tick (every attempt of a tick is above the highest
\* epoch accepted before the tick), and not later in the same tick (an
\* attempt that follows an accepted one is for a higher epoch).
C22_AtMostOnce ==
    [][last'.kind = "tick" =>
          /\ \A i \in DOMAIN last'.log :
                IsEpochPush(last'.log[i]) =>
                   last'.log[i].epoch > LastEpochOf(emitted, last'.log[i].chain)
          /\ \A i, j \in DOMAIN last'.log :
                (/\ i < j
                 /\ IsEpochPush(last'.log[i]) /\ last'.log[i].ok
                 /\ IsEpochPush(last'.log[j])
                 /\ last'.log[i].chain = last'.log[j].chain)
                => last'.log[i].epoch < last'.log[j].epoch]_vars

\* a tick pushed an epoch of a chain for which an earlier tick had a push
\* accepted
C22_Witness ==
    /\ Ticked
    /\ \E i \in DOMAIN last.log :
          /\ IsEpochPush(last.log[i])
          /\ last.log[i].chain \in DOMAIN emitted
          /\ last.log[i].chain \in DOMAIN last.before
          /\ last.before[last.log[i].chain]
                > LastEpochOf(seeded, last.log[i].chain)

\* C23: every push of the watermark variant carries one sample, that of
\* the chain it is made for: the collector it sends holds no child for
\* any other chain.
C23_OneSamplePerPush ==
    Ticked =>
        \A i \in DOMAIN last.log :
            /\ last.log[i].samples[last.log[i].chain] = last.log[i].value
            /\ \A c \in Chains \ {last.log[i].chain} :
                  last.log[i].samples[c] = 0

\* ------------------------------------------------------- the scheduler
\* The ticker fires for ever and every call of a tick returns (the store
\* and the gateway answer or fail), so a tick that can be taken is taken:
\* weak fairness on Tick.  A tick whose report repeats the report of the
\* tick before it leaves the state as it is; fairness and the property
\* below are about the ticks that change the report.  The run is on the
\* scenario rows, with the rows of alpha arriving after startup.
ArriveAlpha ==
    /\ Arrive
    /\ \A r \in shares_epoch_counts' \ shares_epoch_counts : r.chain = "alpha"

NextLive == Startup \/ Tick \/ ArriveAlpha

SpecLive == InitScenario /\ [][NextLive]_vars /\ WF_vars(Tick)

\* C11: once startup has succeeded the scheduler never stops: no step, and
\* so no tick outcome (failed store read, refused pushes, success), takes
\* the process out of the loop, and ticks keep being taken for ever.
C11_SchedulerNeverStops ==
    /\ [][pc = "running" => pc' = "running"]_vars
    /\ (<>[](pc # "running") \/ []<><<Tick>>_vars)

\* a tick that followed a failed tick, met a failed store read itself, and
\* left the process in its loop
C11_Witness ==
    /\ pc = "running"
    /\ Ticked
    /\ ~last.clean
    /\ last.queryFailed

\* ------------------------------------------------------------ delivery
\* The assumptions of eventual delivery: ticks keep occurring, the store
\* is readable again after it failed and a push that is retried is
\* accepted in the end.  They are stated as weak fairness on the ticks
\* that meet no failure: such a tick can always be taken, so it is taken
\* for ever again.
CleanTick == Tick /\ NoFailure(last')

SpecDeliver == InitScenario /\ [][NextLive]_vars /\ WF_vars(CleanTick)

\* the rows of the two scenario chains that hold a count
ScenarioRows == {r \in AlphaRows \cup BetaRows : r.share_count > 0}

\* the row is in the table, above the watermark its chain started from
\* (the seed, 0 for a chain unknown at startup) and not yet behind the
\* chain's watermark
Owed(r) ==
    /\ pc = "running"
    /\ r \in shares_epoch_counts
    /\ r.epoch > LastEpochOf(seeded, r.chain)
    /\ r.epoch > LastEpochOf(lastPushed, r.chain)

\* the last tick pushed shares_epoch_count for the row and saw it accepted
Delivered(r) ==
    /\ Ticked
    /\ \E i \in DOMAIN last.log :
          /\ IsEpochPush(last.log[i])
          /\ last.log[i].chain = r.chain
          /\ last.log[i].epoch = r.epoch
          /\ last.log[i].value = r.share_count
          /\ last.log[i].ok

\* C21: with ticks that go on, the store readable in the end and retried
\* pushes accepted in the end, every row with a positive count above its
\* chain's initial watermark has its shares_epoch_count push accepted at
\* some tick, an epoch whose push was refused by an earlier tick included.
C21_EventualDelivery ==
    \A r \in ScenarioRows : Owed(r) ~> Delivered(r)

\* ============================================ the batched variant
\* src/unnamed/part_000: a tick registers one gauge per new sample in a
\* registry of its own and pushes the registry once (job "chain").  main,
\* loadLastPushedEpochs and getShareCounts are those of the watermark
\* variant; the process-wide gauge vectors are registered and never used.
\* A registry maps a metric name, written <<chain, series>> for
\* <chain>_<series>, to the value of the gauge registered under it.
\* MustRegister panics when the name is already in the registry (the two
\* gauges have the same descriptor); the panic is not recovered, so it ends
\* the process in the middle of the tick.
MetricName(chain, series) == <<chain, series>>

\* registry.MustRegister(gauge): the registry with the gauge, or a panic
MustRegister(st, name, value) ==
    IF name \in DOMAIN st.registry
    THEN [st EXCEPT !.panicked = TRUE]
    ELSE [st EXCEPT !.registry = MapPut(@, name, value)]

\* for epoch := start; epoch <= end; epoch++ { ... }, part_000 199-220
RECURSIVE EpochLoopBatched(_, _, _, _, _)
EpochLoopBatched(chain, epoch, end, shareCounts, st) ==
    IF epoch > end \/ st.panicked THEN st
    ELSE
      LET shareCount ==
              IF epoch \in DOMAIN shareCounts THEN shareCounts[epoch] ELSE 0
      IN
      IF shareCount = 0
      THEN EpochLoopBatched(chain, epoch + 1, end, shareCounts, st)
      ELSE
        LET st1 == MustRegister(st,
                       MetricName(chain, "shares_epoch_count"), shareCount)
        IN
        IF st1.panicked THEN st1
        ELSE EpochLoopBatched(chain, epoch + 1, end, shareCounts,
                 [st1 EXCEPT !.lastPushed = MapPut(@, chain, epoch)])

\* the body of "for _, ce := range chains", part_000 158-221
ProcessChainBatched(tbl, chain, currentMax, st, rangeFail) ==
    LET lastEpoch == LastEpochOf(st.lastPushed, chain)
        start == lastEpoch + 1
        end == currentMax
        shareCounts == getShareCounts(tbl, chain, start, end)
        latestShareCount == LatestOf(shareCounts, end)
    IN
    IF currentMax <= lastEpoch THEN st
    ELSE IF chain \in rangeFail
    THEN [st EXCEPT !.rangeFailed = @ \cup {chain}]
    ELSE IF latestShareCount # 0
    THEN
      LET st1 == MustRegister(st,
                     MetricName(chain, "shares_latest_nonzero"),
                     latestShareCount)
      IN
      IF st1.panicked THEN st1
      ELSE EpochLoopBatched(chain, start, end, shareCounts, st1)
    ELSE EpochLoopBatched(chain, start, end, shareCounts, st)

RECURSIVE ChainLoopBatched(_, _, _, _, _, _)
ChainLoopBatched(tbl, chains, order, i, st, rangeFail) ==
    IF i > Len(order) \/ st.panicked THEN st
    ELSE ChainLoopBatched(tbl, chains, order, i + 1,
             ProcessChainBatched(tbl, order[i], chains[order[i]], st,
                                 rangeFail),
             rangeFail)

\* pushUpdatedShareCounts of part_000, from the chain loop to the return:
\* nothing is pushed when the registry gathered nothing
pushUpdatedShareCountsBatched(tbl, lp, order, rangeFail, pushFail) ==
    LET st == ChainLoopBatched(tbl, MaxEpochQuery(tbl), order, 1,
                  [lastPushed |-> lp, registry |-> << >>, panicked |-> FALSE,
                   rangeFailed |-> {}, log |-> <<>>],
                  rangeFail)
    IN
    IF st.panicked \/ DOMAIN st.registry = {} THEN st
    ELSE [st EXCEPT !.log = <<PushEntry("registry", "chain", 0, 0,
                                        ~pushFail, st.registry)>>]

\* the outcomes a batched tick can meet; the push can be refused only when
\* there is one, and the result does not depend on it otherwise
OutcomesBatched(tbl, lp) ==
    [order : Orders(ChainsOf(tbl)), rangeFail : SUBSET Pending(tbl, lp),
     pushFail : BOOLEAN]

\* case <-ticker.C of part_000 (82-92)
TickBatched ==
    /\ pc = "running"
    /\ \E queryFail \in BOOLEAN :
         IF queryFail
         THEN /\ last' = Report("tick", shares_epoch_counts, lastPushed,
                                TRUE, {}, <<>>, FALSE, FALSE)
              /\ UNCHANGED <<pc, lastPushed>>
         ELSE \E o \in OutcomesBatched(shares_epoch_counts, lastPushed) :
              \E st \in {pushUpdatedShareCountsBatched(shares_epoch_counts,
                            lastPushed, o.order, o.rangeFail, o.pushFail)} :
                   /\ lastPushed' = st.lastPushed
                   /\ pc' = IF st.panicked THEN "panicked" ELSE pc
                   /\ last' = Report(IF st.panicked THEN "panic" ELSE "tick",
                                     shares_epoch_counts, lastPushed,
                                     FALSE, st.rangeFailed, st.log,
                                     FALSE, FALSE)
    /\ UNCHANGED <<shares_epoch_counts, sharesEpochCount, sharesLatestNonZero>>
    /\ UNCHANGED seeded
    /\ UNCHANGED emitted

NextBatched == Startup \/ TickBatched \/ Grow

SpecBatched == Init /\ [][NextBatched]_vars

\* C12: in the batched variant, when the single push of a tick is refused,
\* lastPushed after the tick is lastPushed before the tick, for every chain.
C12_BatchFailureKeepsWatermarks ==
    (Ticked /\ \E i \in DOMAIN last.log : ~last.log[i].ok) =>
        \A c \in Chains :
            LastEpochOf(lastPushed, c) = LastEpochOf(last.before, c)

\* C13: in the batched variant no tick ends in a panic.
C13_BatchedNeverPanics == pc # "panicked"

\* ===================================== the height-tracking variant
\* src/unnamed/part_002: main keeps lastHeights (held here in the variable
\* lastPushed, an empty map when the loop starts: nothing is seeded), and a
\* pass of its loop calls pushShareCounts for each chain whose max epoch
\* moved.  The gauge vector of a call is local to the call; its samples,
\* one per row of the range, are written as the map epoch -> share_count.
\* Chains are independent of each other in a pass, so the order of the
\* map iteration is not an input.
lastHeights == lastPushed

\* getMaxHeights: MAX(epoch) per chain
getMaxHeights(tbl) == MaxEpochQuery(tbl)

\* pushShareCounts(db, chain, startEpoch, endEpoch) with its fate: "ok",
\* "query" (db.Query or rows.Scan fails) or "push" (the gateway refuses)
pushShareCounts(tbl, chain, startEpoch, endEpoch, fate, st) ==
    IF fate = "query"
    THEN [st EXCEPT !.rangeFailed = @ \cup {chain}]
    ELSE [st EXCEPT !.log = Append(@,
              PushEntry("shares_count", chain, endEpoch, 0, fate = "ok",
                        getShareCounts(tbl, chain, startEpoch, endEpoch)))]

\* the body of "for chain, maxHeight := range heights", part_002 48-62
RECURSIVE HeightsLoop(_, _, _, _, _)
HeightsLoop(tbl, heights, todo, fates, st) ==
    IF todo = {} THEN st
    ELSE
      LET chain == CHOOSE c \in todo : TRUE
          maxHeight == heights[chain]
          ok == chain \in DOMAIN st.lastHeights
          lastHeight == IF ok THEN st.lastHeights[chain] ELSE 0
          st1 == IF lastHeight > 0
                 THEN pushShareCounts(tbl, chain, lastHeight + 1, maxHeight,
                                      fates[chain], st)
                 ELSE st
      IN
      IF ~ok \/ maxHeight > lastHeight
      THEN HeightsLoop(tbl, heights, todo \ {chain}, fates,
               [st1 EXCEPT !.lastHeights = MapPut(@, chain, maxHeight)])
      ELSE HeightsLoop(tbl, heights, todo \ {chain}, fates, st)

\* the chains for which a pass calls pushShareCounts
HeightsDue(tbl, lh) ==
    {c \in ChainsOf(tbl) : /\ c \in DOMAIN lh
                           /\ lh[c] > 0
                           /\ SetMax(EpochsOf(tbl, c)) > lh[c]}

\* the fates the calls of a pass can meet (one per chain that has a call)
Fates(tbl, lh) ==
    {f \in [ChainsOf(tbl) -> {"ok", "query", "push"}] :
        \A c \in ChainsOf(tbl) : c \notin HeightsDue(tbl, lh) => f[c] = "ok"}

\* main of part_002 up to the loop: initDB, lastHeights := make(map)
StartupHeights ==
    /\ pc = "startup"
    /\ \E fail \in BOOLEAN :
         IF fail
         THEN /\ pc' = "exited"
              /\ last' = Report("fatal", shares_epoch_counts, lastPushed,
                                TRUE, {}, <<>>, FALSE, FALSE)
         ELSE /\ pc' = "running"
              /\ last' = Report("startup", shares_epoch_counts, lastPushed,
                                FALSE, {}, <<>>, FALSE, FALSE)
    /\ lastPushed' = << >>
    /\ UNCHANGED <<shares_epoch_counts, sharesEpochCount, sharesLatestNonZero>>
    /\ seeded' = lastPushed'
    /\ UNCHANGED emitted

\* one pass of the loop of part_002 (38-67)
TickHeights ==
    /\ pc = "running"
    /\ \E queryFail \in BOOLEAN :
         IF queryFail
         THEN /\ last' = Report("tick", shares_epoch_counts, lastPushed,
                                TRUE, {}, <<>>, FALSE, FALSE)
              /\ UNCHANGED lastPushed
         ELSE \E f \in Fates(shares_epoch_counts, lastHeights) :
              \E st \in {HeightsLoop(shares_epoch_counts,
                            getMaxHeights(shares_epoch_counts),
                            ChainsOf(shares_epoch_counts), f,
                            [lastHeights |-> lastHeights, log |-> <<>>,
                             rangeFailed |-> {}])} :
                   /\ lastPushed' = st.lastHeights
                   /\ last' = Report("tick", shares_epoch_counts, lastPushed,
                                     FALSE, st.rangeFailed, st.log,
                                     FALSE, FALSE)
    /\ UNCHANGED <<pc, shares_epoch_counts, sharesEpochCount,
                   sharesLatestNonZero>>
    /\ UNCHANGED seeded
    /\ UNCHANGED emitted

NextHeights == StartupHeights \/ TickHeights \/ Grow

SpecHeights == Init /\ [][NextHeights]_vars

\* C14: in the height-tracking variant, when pushShareCounts fails for a
\* chain in a pass (its query fails or its push is refused),
\* lastHeights[chain] after the pass is what it was before the pass.
C14_FailedPushKeepsHeight ==
    Ticked =>
        \A c \in Chains :
            (\/ c \in last.rangeFailed
             \/ \E i \in DOMAIN last.log :
                   last.log[i].chain = c /\ ~last.log[i].ok)
            => LastEpochOf(lastHeights, c) = LastEpochOf(last.before, c)

\* ============================================= the dal-based variants
\* src/main.go 1-77 and the second main of src/unnamed/part_001, on
\* src/dal/dal.go and promth.Push (src/unnamed/part_003).  Both read
\* maxHeights once, before the loop (held here in the variable lastPushed,
\* which the loop never writes), and a pass of the loop fetches every row
\* with share_count > 0 and pushes from it; there is no watermark.  Each
\* promth.Push makes a gauge of its own and pushes it alone, so a push
\* carries one sample and no push depends on another: the unspecified
\* order of the two map iterations is not an input, and the report lists
\* the pushes by chain, then by epoch.
maxHeights == lastPushed

\* dal.GetShareCounts: chain -> (epoch -> share_count), rows with count > 0
GetShareCounts(tbl) ==
    LET pos == {r \in tbl : r.share_count > 0}
    IN [c \in ChainsOf(pos) |->
           [e \in EpochsOf(pos, c) |-> CountAt(pos, c, e)]]

\* dal.GetMaxShareHeight: MAX(epoch) per chain over rows with count > 0
GetMaxShareHeight(tbl) ==
    MaxEpochQuery({r \in tbl : r.share_count > 0})

\* promth.Push(pushAddr, metric, job, value): one gauge, one push
Push(series, chain, epoch, value, pushFail) ==
    PushEntry(series, chain, epoch, value,
              <<series, chain, epoch>> \notin pushFail,
              MapPut(<< >>, MetricName(chain, series), value))

\* a finite set of integers as the ascending sequence of its elements
RECURSIVE Ascending(_)
Ascending(S) ==
    IF S = {} THEN <<>>
    ELSE LET lo == CHOOSE x \in S : \A y \in S : x <= y
         IN <<lo>> \o Ascending(S \ {lo})

\* for epoch, shareCount := range epochs { promth.Push(...) }
EpochPushes(chain, epochs, pushFail) ==
    LET es == Ascending(DOMAIN epochs)
    IN [i \in 1..Len(es) |->
           Push("shares_epoch_count", chain, es[i], epochs[es[i]], pushFail)]

\* src/main.go 48-72, the body for one chain: the count found at the
\* height read before the loop (0 when the fetched map has no such epoch)
ChainPushesDal(chain, epochs, heights, pushFail) ==
    IF chain \notin DOMAIN heights THEN <<>>
    ELSE
      LET maxEpoch == heights[chain]
          latestShareCount ==
              IF maxEpoch \in DOMAIN epochs THEN epochs[maxEpoch] ELSE 0
      IN (IF latestShareCount # 0
          THEN <<Push("shares_latest_nonzero", chain, maxEpoch,
                      latestShareCount, pushFail)>>
          ELSE <<>>)
         \o EpochPushes(chain, epochs, pushFail)

\* part_001 106-130, the body for one chain: the height itself is pushed
ChainPushesDalHeight(chain, epochs, heights, pushFail) ==
    IF chain \notin DOMAIN heights THEN <<>>
    ELSE
      LET maxHeight == heights[chain]
      IN EpochPushes(chain, epochs, pushFail)
         \o (IF maxHeight > 0
             THEN <<Push("shares_latest_nonzero", chain, maxHeight,
                         maxHeight, pushFail)>>
             ELSE <<>>)

\* the pushes a pass can make, as the keys a refusal is drawn from
DalKeys(tbl, heights) ==
    {<<"shares_epoch_count", r.chain, r.epoch>> :
        r \in {q \in tbl : q.share_count > 0 /\ q.chain \in DOMAIN heights}}
    \cup {<<"shares_latest_nonzero", c, heights[c]>> : c \in DOMAIN heights}

\* both mains up to the loop: InitDB, then maxHeights read once; either
\* failure ends the process (log.Panicln)
StartupDal ==
    /\ pc = "startup"
    /\ \E fail \in BOOLEAN :
         IF fail
         THEN /\ pc' = "exited"
              /\ lastPushed' = lastPushed
              /\ last' = Report("fatal", shares_epoch_counts, lastPushed,
                                TRUE, {}, <<>>, FALSE, FALSE)
         ELSE /\ pc' = "running"
              /\ lastPushed' = GetMaxShareHeight(shares_epoch_counts)
              /\ last' = Report("startup", shares_epoch_counts, lastPushed,
                                FALSE, {}, <<>>, FALSE, FALSE)
    /\ UNCHANGED <<shares_epoch_counts, sharesEpochCount, sharesLatestNonZero>>
    /\ seeded' = lastPushed'
    /\ UNCHANGED emitted

\* the sequences of a sequence, one after the other
RECURSIVE Flatten(_)
Flatten(ss) == IF ss = <<>> THEN <<>> ELSE Head(ss) \o Flatten(Tail(ss))

\* for chain, epochs := range shareCounts { ... } of src/main.go 48-72
PassDal(shareCounts, heights, pushFail) ==
    LET order == CHOOSE o \in Orders(DOMAIN shareCounts) : TRUE
    IN Flatten([i \in 1..Len(order) |->
           ChainPushesDal(order[i], shareCounts[order[i]], heights,
                          pushFail)])

\* for chain, epochs := range shareCounts { ... } of part_001 106-130
PassDalHeight(shareCounts, heights, pushFail) ==
    LET order == CHOOSE o \in Orders(DOMAIN shareCounts) : TRUE
    IN Flatten([i \in 1..Len(order) |->
           ChainPushesDalHeight(order[i], shareCounts[order[i]], heights,
                             pushFail)])

\* one pass of the loop of src/main.go 38-76
TickDal ==
    /\ pc = "running"
    /\ \E queryFail \in BOOLEAN :
         IF queryFail
         THEN last' = Report("tick", shares_epoch_counts, lastPushed,
                             TRUE, {}, <<>>, FALSE, FALSE)
         ELSE \E pushFail \in SUBSET DalKeys(shares_epoch_counts, maxHeights) :
                 last' = Report("tick", shares_epoch_counts, lastPushed,
                                FALSE, {},
                                PassDal(GetShareCounts(shares_epoch_counts),
                                        maxHeights, pushFail),
                                FALSE, FALSE)
    /\ UNCHANGED <<pc, shares_epoch_counts, lastPushed, sharesEpochCount,
                   sharesLatestNonZero>>
    /\ UNCHANGED seeded
    /\ UNCHANGED emitted

\* one pass of the loop of part_001 96-134
TickDalHeight ==
    /\ pc = "running"
    /\ \E queryFail \in BOOLEAN :
         IF queryFail
         THEN last' = Report("tick", shares_epoch_counts, lastPushed,
                             TRUE, {}, <<>>, FALSE, FALSE)
         ELSE \E pushFail \in SUBSET DalKeys(shares_epoch_counts, maxHeights) :
                 last' = Report("tick", shares_epoch_counts, lastPushed,
                                FALSE, {},
                                PassDalHeight(GetShareCounts(shares_epoch_counts),
                                           maxHeights, pushFail),
                                FALSE, FALSE)
    /\ UNCHANGED <<pc, shares_epoch_counts, lastPushed, sharesEpochCount,
                   sharesLatestNonZero>>
    /\ UNCHANGED seeded
    /\ UNCHANGED emitted

NextDal == StartupDal \/ TickDal \/ Arrive

SpecDal == InitScenario /\ [][NextDal]_vars

NextDalHeight == StartupDal \/ TickDalHeight \/ Arrive

SpecDalHeight == InitScenario /\ [][NextDalHeight]_vars

\* C15: in the second main of part_001, every value pushed as
\* <chain>_shares_latest_nonzero is the share count of the row at the
\* chain's highest epoch with a positive count.
C15_LatestIsCountAtMaxPositive ==
    Ticked =>
        \A i \in DOMAIN last.log :
            IsLatestPush(last.log[i]) =>
                last.log[i].value =
                    CountAt(last.table, last.log[i].chain,
                            MaxPositiveEpoch(last.table, last.log[i].chain))

\* C16: in the first main of src/main.go, every value pushed as
\* <chain>_shares_latest_nonzero in a pass is the count found, in the rows
\* fetched by that pass, at the chain's highest epoch with a positive
\* count, also when rows arrived after startup.
C16_LatestFromTheSameFetch ==
    Ticked =>
        \A i \in DOMAIN last.log :
            IsLatestPush(last.log[i]) =>
                LET epochs == GetShareCounts(last.table)[last.log[i].chain]
                IN last.log[i].value = epochs[SetMax(DOMAIN epochs)]

====
